---- MODULE Spec2Model ----
(***************************************************************************)
(* Crane monitor: the browser client (src/app.js, class CraneMonitor) and  *)
(* the telemetry gateway (src/unnamed/part_001, the express/ws server).    *)
(*                                                                         *)
(* Client state: the fields of CraneMonitor, the browser's WebSocket       *)
(* objects and pending setTimeout timers, localStorage and the status      *)
(* indicator.  Server state: the module-level `readings` array and, per    *)
(* accepted connection, the ws readyState, the closure's interval timer    *)
(* and what was sent to the peer.                                          *)
(***************************************************************************)
EXTENDS Integers, Sequences, FiniteSets, TLC

\* ------------------------------------------------------------------ bounds
MaxSockets == 5      \* WebSocket objects the client may create in a run
MaxTimers == 5       \* setTimeout handles the client may create in a run
MaxConn == 2         \* connections the gateway accepts in a run
MaxAppends == 4      \* ticks (appends to readings) in a run
MaxParseErrors == 1  \* frames that fail to parse in a run
Capacity == 2        \* stands for the 1000 of part_001:153-154, scaled down
HistoryLimit == 2    \* stands for the 1000 of part_001:102, scaled down
HourMs == 1          \* stands for the 60 * 60 * 1000 of part_001:98, scaled down
MaxClock == 2        \* values the gateway's clock takes in a run

\* --------------------------------------------------------------- constants
PolicyViolation == 1008
ServerError == 1011
Unauthorized == 401
OK == 200
NoSocket == 0        \* this.ws = null
NoTimer == 0         \* this.reconnectTimer = null

Sockets == 1..MaxSockets
Conns == 1..MaxConn
NaN == 0 - 1         \* what parseInt gives for a segment that is no number
HoursParams == {"abc", "0", "1", "2"}
TokenKinds == {"absent", "invalid", "valid", "malformed"}

VARIABLES
    \* ---- client (src/app.js)
    started,         \* the constructor has run init()
    hasToken,        \* localStorage holds 'monitor_token'
    redirected,      \* window.location.href was set to /login.html
    ws,              \* this.ws: NoSocket or the socket last created
    sock,            \* browser side: state of every WebSocket object created
    reconnectTimer,  \* this.reconnectTimer: NoTimer or a timer handle
    pendingTimers,   \* browser side: setTimeout timers neither fired nor cleared
    nextTimer,       \* next handle setTimeout returns (handles are never reused)
    statusText,      \* #connection-text
    thisData,        \* this.data: the last payload that parsed
    ui,              \* the display elements updateUI writes
    parseErrors,     \* 'Parse error' lines onMessage has logged
    \* ---- server (src/unnamed/part_001)
    running,         \* the node process is alive
    tokenOf,         \* what the connection request of c carried ("" = no request yet)
    readyState,      \* ws.readyState of the server-side socket of c
    closeCode,       \* code the gateway passed to ws.close for c (0 = none)
    timer,           \* the closure's setInterval timer of c
    ticks,           \* tick callbacks of c that have run
    sent,            \* frames ws.send handed to the open socket of c
    readings,        \* let readings = []
    nAppended,       \* snapshots pushed to readings so far (identity of a snapshot)
    now,             \* the gateway's clock, what Date.now() returns
    res              \* the last response of GET /api/readings/history/:hours

clientVars == <<started, hasToken, redirected, ws, sock, reconnectTimer,
                pendingTimers, nextTimer, statusText, thisData, ui, parseErrors>>
uiVars == <<thisData, ui, parseErrors>>
serverVars == <<running, tokenOf, readyState, closeCode, timer, ticks, sent, readings, nAppended,
               now, res>>
vars == <<started, hasToken, redirected, ws, sock, reconnectTimer,
          pendingTimers, nextTimer, statusText, thisData, ui, parseErrors,
          running, tokenOf, readyState, closeCode, timer, ticks, sent, readings, nAppended,
          now, res>>

\* ===================================================================== client

\* updateConnectionStatus(connected): the text shown in #connection-text
updateConnectionStatus(connected) ==
    IF connected THEN "Connected" ELSE "Mock Data"

\* scheduleReconnect() without the `if (!this.reconnectTimer)` test
scheduleReconnectUnguarded(ts) ==
    [handle |-> ts.next, pending |-> ts.pending \cup {ts.next}, next |-> ts.next + 1]

\* scheduleReconnect(): arms one timer unless the handle is set.  Works on the
\* timer state <<handle, pending, next>> so that a caller that has already
\* consumed a timer in the same handler can chain it.
scheduleReconnect(ts) ==
    IF ts.handle = NoTimer
    THEN [handle |-> ts.next, pending |-> ts.pending \cup {ts.next}, next |-> ts.next + 1]
    ELSE ts

\* onConnect() that leaves the timer and its handle alone
clearReconnectSkipped(ts) ==
    ts

\* clearTimeout(handle) followed by this.reconnectTimer = null, guarded as in onConnect
clearReconnect(ts) ==
    IF ts.handle # NoTimer
    THEN [handle |-> NoTimer, pending |-> ts.pending \ {ts.handle}, next |-> ts.next]
    ELSE ts

timerState == [handle |-> reconnectTimer, pending |-> pendingTimers, next |-> nextTimer]

SetTimerState(ts) ==
    /\ reconnectTimer' = ts.handle
    /\ pendingTimers' = ts.pending
    /\ nextTimer' = ts.next

FreshSocket == CHOOSE s \in Sockets : sock[s] = "none" /\ \A r \in Sockets : r < s => sock[r] # "none"

\* Room left under the bounds for whatever the handler may create
CanCreateSocket == \E s \in Sockets : sock[s] = "none"
CanCreateTimer == nextTimer <= MaxTimers

\* setupWebSocket() that treats a missing credential as a failed attempt and
\* schedules a retry instead of returning
setupWebSocketRetryNoToken(ts, st, throws) ==
    IF ~hasToken \/ throws
    THEN /\ statusText' = updateConnectionStatus(FALSE)
         /\ SetTimerState(scheduleReconnect(ts))
         /\ redirected' = (redirected \/ ~hasToken)
         /\ UNCHANGED <<ws, sock>>
    ELSE /\ ws' = FreshSocket
         /\ sock' = [sock EXCEPT ![FreshSocket] = "connecting"]
         /\ statusText' = st
         /\ SetTimerState(ts)
         /\ UNCHANGED redirected

\* setupWebSocket() with `finally` in place of `catch`: the status is reset and
\* a reconnect is scheduled after a successful construction too
setupWebSocketFinally(ts, st, throws) ==
    IF ~hasToken
    THEN /\ redirected' = TRUE
         /\ statusText' = st
         /\ SetTimerState(ts)
         /\ UNCHANGED <<ws, sock>>
    ELSE /\ statusText' = updateConnectionStatus(FALSE)
         /\ SetTimerState(scheduleReconnect(ts))
         /\ IF throws
            THEN UNCHANGED <<ws, sock>>
            ELSE /\ ws' = FreshSocket
                 /\ sock' = [sock EXCEPT ![FreshSocket] = "connecting"]
         /\ UNCHANGED redirected

\* setupWebSocket(): ts and st are the timer state and the status text on
\* entry, throws says whether the WebSocket constructor raised.
setupWebSocket(ts, st, throws) ==
    IF ~hasToken
    THEN /\ redirected' = TRUE
         /\ statusText' = st
         /\ SetTimerState(ts)
         /\ UNCHANGED <<ws, sock>>
    ELSE IF throws
    THEN /\ statusText' = updateConnectionStatus(FALSE)
         /\ SetTimerState(scheduleReconnect(ts))
         /\ UNCHANGED <<ws, sock, redirected>>
    ELSE /\ ws' = FreshSocket
         /\ sock' = [sock EXCEPT ![FreshSocket] = "connecting"]
         /\ statusText' = st
         /\ SetTimerState(ts)
         /\ UNCHANGED redirected

\* onConnect()
onConnect ==
    /\ statusText' = updateConnectionStatus(TRUE)
    /\ SetTimerState(clearReconnect(timerState))

\* onError(error): logs only
onError ==
    UNCHANGED <<statusText, reconnectTimer, pendingTimers, nextTimer>>

\* onDisconnect() without the updateConnectionStatus(false) call
onDisconnectKeepsStatus ==
    /\ statusText' = statusText
    /\ SetTimerState(scheduleReconnect(timerState))

\* onDisconnect()
onDisconnect ==
    /\ statusText' = updateConnectionStatus(FALSE)
    /\ SetTimerState(scheduleReconnect(timerState))

\* new CraneMonitor(): the constructor's init() sets the status offline and
\* calls setupWebSocket()
init ==
    /\ ~started
    /\ CanCreateSocket /\ CanCreateTimer
    /\ started' = TRUE
    /\ \E throws \in BOOLEAN :
          setupWebSocket(timerState, updateConnectionStatus(FALSE), throws)
    /\ UNCHANGED <<hasToken, thisData, ui, parseErrors>>
    /\ UNCHANGED serverVars

\* The reconnect timer t fires: the browser drops it from its pending timers
\* and runs the callback, which calls setupWebSocket().  The callback does not
\* touch this.reconnectTimer.
TimerFire(t) ==
    /\ t \in pendingTimers
    /\ CanCreateSocket /\ CanCreateTimer
    /\ \E throws \in BOOLEAN :
          setupWebSocket([timerState EXCEPT !.pending = @ \ {t}], statusText, throws)
    /\ UNCHANGED <<started, hasToken, thisData, ui, parseErrors>>
    /\ UNCHANGED serverVars

\* The browser dispatches `open` on socket s: ws.onopen -> onConnect()
WsOpen(s) ==
    /\ sock[s] = "connecting"
    /\ sock' = [sock EXCEPT ![s] = "open"]
    /\ onConnect
    /\ UNCHANGED <<started, hasToken, redirected, ws, thisData, ui, parseErrors>>
    /\ UNCHANGED serverVars

\* The browser dispatches `error` on socket s (the connection failed; the
\* close event follows): ws.onerror -> onError().  "failed" is a socket that
\* never opened, "broken" one that had opened.
WsError(s) ==
    /\ sock[s] \in {"connecting", "open"}
    /\ sock' = [sock EXCEPT ![s] = IF sock[s] = "open" THEN "broken" ELSE "failed"]
    /\ onError
    /\ UNCHANGED <<started, hasToken, redirected, ws, thisData, ui, parseErrors>>
    /\ UNCHANGED serverVars

\* The browser dispatches `close` on socket s: ws.onclose -> onDisconnect()
WsClose(s) ==
    /\ sock[s] \in {"connecting", "open", "failed", "broken"}
    /\ CanCreateTimer
    /\ sock' = [sock EXCEPT ![s] = "closed"]
    /\ onDisconnect
    /\ UNCHANGED <<started, hasToken, redirected, ws, thisData, ui, parseErrors>>
    /\ UNCHANGED serverVars

\* Another page (login, logout, another tab) stores or removes 'monitor_token'
localStorageSetItem ==
    /\ ~hasToken
    /\ hasToken' = TRUE
    /\ UNCHANGED <<started, redirected, ws, sock, reconnectTimer, pendingTimers,
                   nextTimer, statusText, thisData, ui, parseErrors>>
    /\ UNCHANGED serverVars

localStorageRemoveItem ==
    /\ hasToken
    /\ hasToken' = FALSE
    /\ UNCHANGED <<started, redirected, ws, sock, reconnectTimer, pendingTimers,
                   nextTimer, statusText, thisData, ui, parseErrors>>
    /\ UNCHANGED serverVars

\* ================================================================ client UI

\* A field the payload does not carry, or a text the page has not been given yet
Undefined == -1

Switches == 1..4

\* Snapshots the gateway may send.  Loads are in hundredths (toFixed(2) is then
\* exact), remaining_seconds in seconds; a flag the payload lacks is falsy and
\* is written FALSE, a missing safety_level is "".
BaseSnapshot ==
    [load |-> 5000, swl |-> 10000, safety_level |-> "safe",
     in_progress |-> FALSE, all_complete |-> FALSE, remaining_seconds |-> Undefined,
     tested |-> [i \in Switches |-> FALSE], hit |-> [i \in Switches |-> FALSE],
     warning_active |-> FALSE,
     hoist_active |-> FALSE, trolley_active |-> FALSE, slew_active |-> FALSE,
     utilization_active |-> FALSE, overload_active |-> FALSE, bypass_active |-> FALSE]

\* {}: the initial this.data, an object none of whose fields is present
EmptyObject ==
    [BaseSnapshot EXCEPT !.load = Undefined, !.swl = Undefined, !.safety_level = ""]

Loads == {Undefined, 0, 7996, 9496, 9600}
Swls == {Undefined, 0, 10000}
SafetyLevels == {"safe", "warning", "overload", "cutoff"}
Remaining == {Undefined, 0, 5, 65, 600}

Snapshots ==
    {[BaseSnapshot EXCEPT !.load = l, !.swl = w] : l \in Loads, w \in Swls}
    \cup {[BaseSnapshot EXCEPT !.safety_level = v] : v \in SafetyLevels \cup {"", "fault"}}
    \cup {[BaseSnapshot EXCEPT !.in_progress = p, !.all_complete = ~p,
                               !.remaining_seconds = r, !.warning_active = p] :
            p \in BOOLEAN, r \in Remaining}
    \cup {[BaseSnapshot EXCEPT !.tested[i] = t, !.hit[i] = h] :
            i \in Switches, t \in BOOLEAN, h \in BOOLEAN}
    \cup {[BaseSnapshot EXCEPT !.hoist_active = b, !.slew_active = ~b,
                               !.utilization_active = b, !.bypass_active = b] :
            b \in BOOLEAN}
    \cup {[BaseSnapshot EXCEPT !.load = 9600, !.safety_level = "warning",
                               !.tested[1] = TRUE, !.hit[1] = TRUE,
                               !.hoist_active = TRUE, !.overload_active = TRUE]}

\* What event.data may be: text JSON.parse rejects, or a snapshot object
Payloads == {"malformed", "snapshot"}

\* The page as loaded, before any snapshot
MarkupUI ==
    [loadText |-> Undefined, swlText |-> Undefined,
     percentText |-> Undefined, percentClass |-> {},
     statusLight |-> {"status-light"}, safetyText |-> "",
     bannerClass |-> {"safety-banner", "hidden"}, bannerMessage |-> "",
     testBadge |-> {"test-status-badge"}, testStatusText |-> "",
     timerText |-> <<>>,
     indicator |-> [i \in Switches |-> {"test-indicator"}],
     warningClass |-> {"hidden"},
     hoistOp |-> [class |-> {"op-status"}, text |-> ""],
     trolleyOp |-> [class |-> {"op-status"}, text |-> ""],
     slewOp |-> [class |-> {"op-status"}, text |-> ""],
     utilDot |-> {"status-dot"}, utilText |-> "",
     overloadBadge |-> [class |-> {"badge-status"}, text |-> ""],
     bypassBadge |-> [class |-> {"badge-status"}, text |-> ""]]

\* a number used as a condition: absent and 0 are falsy
Truthy(n) == n # Undefined /\ n # 0

\* x?.toFixed(2) || '0.00' for a value held in hundredths
toFixed2(n) == IF n = Undefined THEN 0 ELSE n

\* (load / swl * 100).toFixed(1), in tenths of a percent: the quotient rounded
\* to the nearest tenth
percentToFixed1(load, swl) == (2000 * load + swl) \div (2 * swl)

\* the load-percentage block of updateUI (lines 120-130): nothing is written
\* unless load and swl are truthy and swl > 0; the class is chosen by comparing
\* the rounded text with 95 and 80
updateLoadPercent(u, d) ==
    IF Truthy(d.load) /\ Truthy(d.swl) /\ d.swl > 0
    THEN LET percent == percentToFixed1(d.load, d.swl)
         IN  [u EXCEPT !.percentText = percent,
                       !.percentClass = IF percent >= 950 THEN {"danger"}
                                        ELSE IF percent >= 800 THEN {"warning"}
                                        ELSE {}]
    ELSE u

WarningMessage == "Load approaching limit"
OverloadMessage == "OVERLOAD - Operations stopped"

\* updateSafetyStatus(level); a level outside the switch only resets the two
\* class names
updateSafetyStatus(u, level) ==
    CASE level = "safe" ->
            [u EXCEPT !.statusLight = {"status-light", "safe"},
                      !.safetyText = "Safe",
                      !.bannerClass = {"safety-banner", "hidden"}]
      [] level = "warning" ->
            [u EXCEPT !.statusLight = {"status-light", "warning"},
                      !.safetyText = "Warning",
                      !.bannerMessage = WarningMessage,
                      !.bannerClass = {"safety-banner"}]
      [] level \in {"overload", "cutoff"} ->
            [u EXCEPT !.statusLight = {"status-light", "danger"},
                      !.safetyText = IF level = "cutoff" THEN "CUTOFF" ELSE "Overload",
                      !.bannerMessage = OverloadMessage,
                      !.bannerClass = {"safety-banner", "danger"}]
      [] OTHER ->
            [u EXCEPT !.statusLight = {"status-light"},
                      !.bannerClass = {"safety-banner"}]

\* updateTestIndicator with red and yellow exchanged
updateTestIndicatorSwapped(classes, tested, hit) ==
    {"test-indicator"} \cup
        (IF hit THEN (IF tested THEN {"red"} ELSE {"yellow"})
                ELSE (IF tested THEN {"green"} ELSE {"grey"}))

\* updateTestIndicator(elementId, tested, hit): the new class list of the
\* indicator whose class list was `classes`
updateTestIndicator(classes, tested, hit) ==
    {"test-indicator"} \cup
        (IF hit THEN (IF tested THEN {"yellow"} ELSE {"red"})
                ELSE (IF tested THEN {"green"} ELSE {"grey"}))

\* n.toString() for 0 <= n < 100, as its digits
toString(n) == IF n < 10 THEN <<n>> ELSE <<n \div 10, n % 10>>

\* digits.padStart(2, '0')
padStart2(digits) == IF Len(digits) < 2 THEN <<0>> \o digits ELSE digits

\* the timer text without padStart
timerTextUnpadded(t) ==
    IF t.in_progress /\ t.remaining_seconds # Undefined
    THEN <<t.remaining_seconds \div 60>> \o toString(t.remaining_seconds % 60)
    ELSE <<10, 0, 0>>

\* lines 214-220: minutes, then the two digits of the seconds; <<10, 0, 0>> is
\* the text '10:00'
timerText(t) ==
    IF t.in_progress /\ t.remaining_seconds # Undefined
    THEN <<t.remaining_seconds \div 60>> \o padStart2(toString(t.remaining_seconds % 60))
    ELSE <<10, 0, 0>>

\* updateTestMode(testData)
updateTestMode(u, t) ==
    [u EXCEPT
       !.testBadge = {"test-status-badge"} \cup
                        (IF t.in_progress THEN {"active"}
                         ELSE IF t.all_complete THEN {"complete"} ELSE {}),
       !.testStatusText = IF t.in_progress THEN "In Progress"
                          ELSE IF t.all_complete THEN "Complete" ELSE "Not Started",
       !.timerText = timerText(t),
       !.indicator = [i \in Switches |->
                         updateTestIndicator(u.indicator[i], t.tested[i], t.hit[i])],
       !.warningClass = IF t.warning_active THEN {} ELSE {"hidden"}]

\* updateOperation(id, active) and updateBadge(id, active): what the status
\* element shows afterwards
updateOperation(active) ==
    IF active THEN [class |-> {"op-status", "active"}, text |-> "ON"]
              ELSE [class |-> {"op-status"}, text |-> "OFF"]

updateBadge(active) ==
    IF active THEN [class |-> {"badge-status", "active"}, text |-> "ON"]
              ELSE [class |-> {"badge-status"}, text |-> "OFF"]

\* updateUI(data).  The texts that only copy a field (trolley, wind,
\* utilization minutes, counters, status word, time of the update) are written
\* like loadText and are left out.
updateUI(u, d) ==
    LET u1 == [u EXCEPT !.loadText = toFixed2(d.load), !.swlText = toFixed2(d.swl)]
        u2 == updateLoadPercent(u1, d)
        u3 == updateSafetyStatus(u2, IF d.safety_level = "" THEN "safe" ELSE d.safety_level)
        u4 == updateTestMode(u3, d)
    IN  [u4 EXCEPT
           !.hoistOp = updateOperation(d.hoist_active),
           !.trolleyOp = updateOperation(d.trolley_active),
           !.slewOp = updateOperation(d.slew_active),
           !.utilDot = IF d.utilization_active THEN @ \cup {"online"} ELSE @ \ {"online"},
           !.utilText = IF d.utilization_active THEN "Active" ELSE "Inactive",
           !.overloadBadge = updateBadge(d.overload_active),
           !.bypassBadge = updateBadge(d.bypass_active)]

\* onMessage that stores and renders whatever came out of the parse attempt:
\* a payload that does not parse leaves it with an empty object
onMessageStoresAnyway(payload, d) ==
    IF payload = "malformed"
    THEN /\ thisData' = EmptyObject
         /\ ui' = updateUI(ui, EmptyObject)
         /\ parseErrors' = parseErrors + 1
    ELSE /\ thisData' = d
         /\ ui' = updateUI(ui, d)
         /\ UNCHANGED parseErrors

\* onMessage(event): payload is what event.data is, d the object it parses to
\* when it parses
onMessage(payload, d) ==
    IF payload = "malformed"
    THEN /\ parseErrors' = parseErrors + 1
         /\ UNCHANGED <<thisData, ui>>
    ELSE /\ thisData' = d
         /\ ui' = updateUI(ui, d)
         /\ UNCHANGED parseErrors

\* The browser dispatches `message` on the open socket s: ws.onmessage ->
\* onMessage(event)
WsMessage(s, payload, d) ==
    /\ sock[s] = "open"
    /\ payload = "malformed" => parseErrors < MaxParseErrors
    /\ onMessage(payload, d)
    /\ UNCHANGED <<started, hasToken, redirected, ws, sock, reconnectTimer,
                   pendingTimers, nextTimer, statusText>>
    /\ UNCHANGED serverVars

\* ===================================================================== server

\* the push without the trim
saveReadingNoTrim(rs, data) ==
    Append(rs, data)

\* the trim written as slice(0, 1000): keeps the oldest instead of the newest
saveReadingKeepOldest(rs, data) ==
    LET pushed == Append(rs, data)
    IN  IF Len(pushed) > Capacity THEN SubSeq(pushed, 1, Capacity) ELSE pushed

\* readings.push(data); if (readings.length > 1000) readings = readings.slice(-1000)
saveReading(rs, data) ==
    LET pushed == Append(rs, data)
    IN  IF Len(pushed) > Capacity
        THEN SubSeq(pushed, Len(pushed) - Capacity + 1, Len(pushed))
        ELSE pushed

\* the connection handler with the `return` after ws.close(1008, ...) missing:
\* a rejected request falls through to setInterval and ws.on('close')
connectionNoReturn(c, k) ==
    /\ running
    /\ tokenOf[c] = ""
    /\ \A d \in Conns : d < c => tokenOf[d] # ""
    /\ tokenOf' = [tokenOf EXCEPT ![c] = k]
    /\ timer' = [timer EXCEPT ![c] = "active"]
    /\ IF k \in {"absent", "invalid"}
       THEN /\ closeCode' = [closeCode EXCEPT ![c] = PolicyViolation]
            /\ readyState' = [readyState EXCEPT ![c] = "CLOSING"]
       ELSE IF k = "malformed"
       THEN /\ closeCode' = [closeCode EXCEPT ![c] = ServerError]
            /\ readyState' = [readyState EXCEPT ![c] = "CLOSING"]
       ELSE /\ readyState' = [readyState EXCEPT ![c] = "OPEN"]
            /\ UNCHANGED closeCode
    /\ UNCHANGED <<running, ticks, sent, readings, nAppended>>
    /\ UNCHANGED <<now, res>>
    /\ UNCHANGED clientVars

\* wss.on('connection'): the request of connection c carries a token of kind k.
\* No token and a token jwt.verify rejects are closed with 1008, a request
\* whose URL cannot be parsed with 1011; otherwise the interval timer and the
\* close listener are set up.
connection(c, k) ==
    /\ running
    /\ tokenOf[c] = ""
    /\ \A d \in Conns : d < c => tokenOf[d] # ""
    /\ tokenOf' = [tokenOf EXCEPT ![c] = k]
    /\ IF k \in {"absent", "invalid"}
       THEN /\ closeCode' = [closeCode EXCEPT ![c] = PolicyViolation]
            /\ readyState' = [readyState EXCEPT ![c] = "CLOSING"]
            /\ UNCHANGED timer
       ELSE IF k = "malformed"
       THEN /\ closeCode' = [closeCode EXCEPT ![c] = ServerError]
            /\ readyState' = [readyState EXCEPT ![c] = "CLOSING"]
            /\ UNCHANGED timer
       ELSE /\ readyState' = [readyState EXCEPT ![c] = "OPEN"]
            /\ timer' = [timer EXCEPT ![c] = "active"]
            /\ UNCHANGED closeCode
    /\ UNCHANGED <<running, ticks, sent, readings, nAppended>>
    /\ UNCHANGED <<now, res>>
    /\ UNCHANGED clientVars

\* The setInterval callback of connection c: build a snapshot, save it, send
\* it.  ws.send on a socket that is no longer open delivers nothing: depending
\* on the ws version it drops the frame or raises inside the async callback,
\* and the rejection that results is either reported or ends the process,
\* depending on the node version.  No outcome reaches clearInterval.
tick(c) ==
    /\ running
    /\ timer[c] = "active"
    /\ nAppended < MaxAppends
    /\ \E exits \in BOOLEAN :
          /\ exits => readyState[c] # "OPEN"
          /\ running' = ~exits
    /\ LET data == [id |-> nAppended + 1, by |-> c, timestamp |-> now]
       IN  readings' = saveReading(readings, data)
    /\ nAppended' = nAppended + 1
    /\ ticks' = [ticks EXCEPT ![c] = @ + 1]
    /\ sent' = [sent EXCEPT ![c] = IF readyState[c] = "OPEN" THEN @ + 1 ELSE @]
    /\ UNCHANGED <<tokenOf, readyState, closeCode, timer>>
    /\ UNCHANGED <<now, res>>
    /\ UNCHANGED clientVars

\* The peer of c closes or the transport drops: the server-side socket leaves
\* OPEN; its 'close' event is emitted later, once the TCP socket has closed.
peerGone(c) ==
    /\ running
    /\ readyState[c] = "OPEN"
    /\ readyState' = [readyState EXCEPT ![c] = "CLOSING"]
    /\ UNCHANGED <<running, tokenOf, closeCode, timer, ticks, sent, readings, nAppended>>
    /\ UNCHANGED <<now, res>>
    /\ UNCHANGED clientVars

\* the close listener without clearInterval
closeNoClear(c) ==
    /\ running
    /\ readyState[c] = "CLOSING"
    /\ readyState' = [readyState EXCEPT ![c] = "CLOSED"]
    /\ UNCHANGED <<running, tokenOf, closeCode, timer, ticks, sent, readings, nAppended>>
    /\ UNCHANGED <<now, res>>
    /\ UNCHANGED clientVars

\* `timer` declared once at module level instead of per connection: the close
\* listener clears the timer created last, whichever connection closed
closeSharedTimer(c) ==
    /\ running
    /\ readyState[c] = "CLOSING"
    /\ readyState' = [readyState EXCEPT ![c] = "CLOSED"]
    /\ timer' = [d \in Conns |->
                   IF /\ timer[c] # "none"
                      /\ timer[d] # "none"
                      /\ \A e \in Conns : timer[e] # "none" => e <= d
                   THEN "cleared" ELSE timer[d]]
    /\ UNCHANGED <<running, tokenOf, closeCode, ticks, sent, readings, nAppended>>
    /\ UNCHANGED <<now, res>>
    /\ UNCHANGED clientVars

\* ws emits 'close' for c.  Only an authenticated connection has the listener
\* of lines 164-167, which clears the timer.
close(c) ==
    /\ running
    /\ readyState[c] = "CLOSING"
    /\ readyState' = [readyState EXCEPT ![c] = "CLOSED"]
    /\ timer' = [timer EXCEPT ![c] = IF @ = "none" THEN "none" ELSE "cleared"]
    /\ UNCHANGED <<running, tokenOf, closeCode, ticks, sent, readings, nAppended>>
    /\ UNCHANGED <<now, res>>
    /\ UNCHANGED clientVars

\* Date.now() and new Date() read a later value
timePasses ==
    /\ running
    /\ now < MaxClock
    /\ now' = now + 1
    /\ UNCHANGED <<running, tokenOf, readyState, closeCode, timer, ticks, sent,
                   readings, nAppended, res>>
    /\ UNCHANGED clientVars

\* parseInt(req.params.hours) for the path segments of HoursParams
parseInt(p) ==
    CASE p = "0" -> 0
      [] p = "1" -> 1
      [] p = "2" -> 2
      [] OTHER -> NaN

\* readings.filter(reading => new Date(reading.timestamp) >= since)
filter(rs, since) ==
    LET keep(reading) == reading.timestamp >= since
    IN  SelectSeq(rs, keep)

\* One step of the stable sort: b goes behind every element that does not
\* compare after it under (a, b) => new Date(b.timestamp) - new Date(a.timestamp)
RECURSIVE insert(_, _)
insert(sorted, b) ==
    IF sorted = <<>> THEN <<b>>
    ELSE IF b.timestamp - Head(sorted).timestamp > 0
         THEN <<b>> \o sorted
         ELSE <<Head(sorted)>> \o insert(Tail(sorted), b)

\* .sort((a, b) => new Date(b.timestamp) - new Date(a.timestamp))
RECURSIVE sort(_)
sort(rs) ==
    IF rs = <<>> THEN <<>>
    ELSE insert(sort(SubSeq(rs, 1, Len(rs) - 1)), rs[Len(rs)])

\* .slice(0, n)
slice(rs, n) ==
    SubSeq(rs, 1, IF n < Len(rs) THEN n ELSE Len(rs))

\* the chain without the sort
filteredReadingsUnsorted(rs, since) ==
    slice(filter(rs, since), HistoryLimit)

\* const filteredReadings = readings.filter(...).sort(...).slice(0, 1000)
filteredReadings(rs, since) ==
    slice(sort(filter(rs, since)), HistoryLimit)

\* GET /api/readings/history/:hours with path segment p; authorized tells
\* whether verifyToken accepts the Authorization header
getReadingsHistory(p, authorized) ==
    /\ running
    /\ IF ~authorized
       THEN res' = [status |-> Unauthorized, since |-> 0, body |-> <<>>]
       ELSE LET hours == IF parseInt(p) \in {NaN, 0} THEN 1 ELSE parseInt(p)
                since == now - hours * HourMs
            IN  res' = [status |-> OK, since |-> since,
                        body |-> filteredReadings(readings, since)]
    /\ UNCHANGED <<running, tokenOf, readyState, closeCode, timer, ticks, sent,
                   readings, nAppended, now>>
    /\ UNCHANGED clientVars

\* ============================================================ specification

Init ==
    /\ started = FALSE
    /\ hasToken \in BOOLEAN
    /\ redirected = FALSE
    /\ ws = NoSocket
    /\ sock = [s \in Sockets |-> "none"]
    /\ reconnectTimer = NoTimer
    /\ pendingTimers = {}
    /\ nextTimer = 1
    /\ statusText = ""
    /\ thisData = EmptyObject
    /\ ui = MarkupUI
    /\ parseErrors = 0
    /\ running = TRUE
    /\ tokenOf = [c \in Conns |-> ""]
    /\ readyState = [c \in Conns |-> "NONE"]
    /\ closeCode = [c \in Conns |-> 0]
    /\ timer = [c \in Conns |-> "none"]
    /\ ticks = [c \in Conns |-> 0]
    /\ sent = [c \in Conns |-> 0]
    /\ readings = <<>>
    /\ nAppended = 0
    /\ now = 0
    /\ res = [status |-> 0, since |-> 0, body |-> <<>>]

\* The browser's event loop running the client
NextClient ==
    \/ init
    \/ \E t \in 1..MaxTimers : TimerFire(t)
    \/ \E s \in Sockets : WsOpen(s)
    \/ \E s \in Sockets : WsError(s)
    \/ \E s \in Sockets : WsClose(s)
    \/ \E s \in Sockets, payload \in Payloads, d \in Snapshots : WsMessage(s, payload, d)
    \/ localStorageSetItem
    \/ localStorageRemoveItem

\* The node event loop running the gateway
NextServer ==
    \/ \E c \in Conns, k \in TokenKinds : connection(c, k)
    \/ \E c \in Conns : tick(c)
    \/ \E c \in Conns : peerGone(c)
    \/ \E c \in Conns : close(c)

\* The gateway's clock and its history endpoint, with authenticated sessions
\* filling the buffer
NextHistory ==
    \/ \E c \in Conns : connection(c, "valid")
    \/ \E c \in Conns : tick(c)
    \/ timePasses
    \/ \E p \in HoursParams, authorized \in BOOLEAN : getReadingsHistory(p, authorized)

\* What jwt.verify makes of the token a client holding one puts in its URL
ClientTokenKinds == {"invalid", "valid"}

\* The gateway serves the upgrade request of client socket s, which is its
\* connection s: the WebSocket.Server has no verifyClient, so the handshake is
\* completed for any request, and only then 'connection' is emitted and the
\* handler judges the token (kind k).  The client may have given up meanwhile.
handleUpgrade(s, k) ==
    /\ s \in Conns
    /\ sock[s] # "none"
    /\ connection(s, k)

\* The handshake response for socket s has arrived: the browser dispatches
\* `open`, whatever the handler did after the handshake
HandshakeOpen(s) ==
    /\ s \in Conns
    /\ tokenOf[s] # ""
    /\ WsOpen(s)

\* The client in its browser connected to the gateway
NextHandshake ==
    \/ init
    \/ \E t \in 1..MaxTimers : TimerFire(t)
    \/ \E s \in Sockets, k \in ClientTokenKinds : handleUpgrade(s, k)
    \/ \E s \in Sockets : HandshakeOpen(s)
    \/ \E s \in Sockets : WsError(s)
    \/ \E s \in Sockets : WsClose(s)
    \/ \E c \in Conns : peerGone(c)
    \/ \E c \in Conns : close(c)

Next ==
    \/ NextClient
    \/ NextServer
    \/ NextHistory
    \/ NextHandshake

\* the client in its browser
SpecClient == Init /\ [][NextClient]_vars

\* the gateway process with its peers
SpecServer == Init /\ [][NextServer]_vars

\* the gateway answering history requests while sessions tick
SpecHistory == Init /\ [][NextHistory]_vars

\* the client and the gateway through the handshake and the teardown
SpecHandshake == Init /\ [][NextHandshake]_vars

\* both processes
Spec == Init /\ [][Next]_vars

\* The handlers of CraneMonitor invoked in any order, as a caller holding the
\* object could: setupWebSocket, onConnect, onDisconnect, onError, and the
\* browser firing a pending timer.
CallSetupWebSocket ==
    /\ started
    /\ CanCreateSocket /\ CanCreateTimer
    /\ \E throws \in BOOLEAN : setupWebSocket(timerState, statusText, throws)
    /\ UNCHANGED <<started, hasToken, thisData, ui, parseErrors>>
    /\ UNCHANGED serverVars

CallOnConnect ==
    /\ started
    /\ onConnect
    /\ UNCHANGED <<started, hasToken, redirected, ws, sock, thisData, ui, parseErrors>>
    /\ UNCHANGED serverVars

CallOnError ==
    /\ started
    /\ onError
    /\ UNCHANGED <<started, hasToken, redirected, ws, sock, thisData, ui, parseErrors>>
    /\ UNCHANGED serverVars

CallOnDisconnect ==
    /\ started
    /\ CanCreateTimer
    /\ onDisconnect
    /\ UNCHANGED <<started, hasToken, redirected, ws, sock, thisData, ui, parseErrors>>
    /\ UNCHANGED serverVars

NextApi ==
    \/ init
    \/ CallSetupWebSocket
    \/ CallOnConnect
    \/ CallOnError
    \/ CallOnDisconnect
    \/ \E t \in 1..MaxTimers : TimerFire(t)
    \/ localStorageSetItem
    \/ localStorageRemoveItem

SpecApi == Init /\ [][NextApi]_vars

TypeOK ==
    /\ started \in BOOLEAN /\ hasToken \in BOOLEAN /\ redirected \in BOOLEAN
    /\ ws \in {NoSocket} \cup Sockets
    /\ sock \in [Sockets -> {"none", "connecting", "open", "failed", "broken", "closed"}]
    /\ reconnectTimer \in {NoTimer} \cup (1..MaxTimers)
    /\ pendingTimers \subseteq 1..MaxTimers
    /\ nextTimer \in 1..(MaxTimers + 1)
    /\ statusText \in {"", "Connected", "Mock Data"}
    /\ running \in BOOLEAN
    /\ tokenOf \in [Conns -> TokenKinds \cup {""}]
    /\ readyState \in [Conns -> {"NONE", "OPEN", "CLOSING", "CLOSED"}]
    /\ closeCode \in [Conns -> {0, PolicyViolation, ServerError}]
    /\ timer \in [Conns -> {"none", "active", "cleared"}]
    /\ nAppended \in 0..MaxAppends
    /\ thisData \in Snapshots \cup {EmptyObject}
    /\ parseErrors \in 0..MaxParseErrors
    /\ now \in 0..MaxClock
    /\ res.status \in {0, OK, Unauthorized}
    /\ Len(res.body) <= HistoryLimit

\* ===================================================================== claims

LiveSockets == {s \in Sockets : sock[s] \in {"connecting", "open", "failed", "broken"}}

\* C1: in every state reached by any sequence of setupWebSocket, onConnect,
\* onDisconnect, onError and timer-fire events, at most one reconnect timer is
\* pending.
C1_AtMostOneTimer ==
    Cardinality(pendingTimers) <= 1

\* C1 witness: a timer is pending after an earlier one was created and has
\* fired or been cleared, and further handlers have run since.
C1_Witness ==
    /\ Cardinality(pendingTimers) = 1
    /\ reconnectTimer \in pendingTimers
    /\ nextTimer > 2
    /\ statusText = "Mock Data"

\* The WebSocket constructor raised inside setupWebSocket (a credential was
\* present and no socket came out of the call).
ConstructorThrew ==
    /\ hasToken
    /\ init \/ \E t \in 1..MaxTimers : TimerFire(t)
    /\ ws' = ws

\* C2 (as claimed): after every close or constructor failure handled while a
\* credential is present, exactly one reconnect timer is pending.
C2_ExactlyOneTimerAfterFailure ==
    [][(hasToken /\ ((\E s \in Sockets : WsClose(s)) \/ ConstructorThrew))
         => Cardinality(pendingTimers') = 1]_vars

\* C3 (as claimed): while the credential is present the client never ends up
\* with no socket connecting or open and no reconnect timer pending.
C3_NeverStranded ==
    (started /\ hasToken /\ ~redirected) => (LiveSockets # {} \/ pendingTimers # {})

\* C5: setupWebSocket run without a credential (from init or from a fired
\* timer) hands over to the login redirect, creates no socket and arms no
\* timer; this.ws, the sockets and the timer handle are as before.
C5_NoTokenAborts ==
    [][(~hasToken /\ (init \/ \E t \in 1..MaxTimers : TimerFire(t)))
         => /\ redirected'
            /\ ws' = ws
            /\ sock' = sock
            /\ reconnectTimer' = reconnectTimer
            /\ nextTimer' = nextTimer
            /\ pendingTimers' \subseteq pendingTimers]_vars

\* C5 witness: the redirect was taken by a fired reconnect timer (the handle
\* is still set, nothing is pending, the earlier socket is closed).
C5_Witness ==
    /\ redirected
    /\ ~hasToken
    /\ reconnectTimer # NoTimer
    /\ pendingTimers = {}
    /\ LiveSockets = {}

\* ------------------------------------------------------------------ gateway

Rejected(c) == tokenOf[c] \in {"absent", "invalid"}
Authenticated(c) == tokenOf[c] = "valid"

\* C4: a request with no token or with a token that fails verification is
\* closed with 1008 and never gets a tick timer: no tick of it runs, so it
\* appends nothing to readings and no frame is sent to it, whatever the other
\* sessions do.
C4_RejectedGetsNothing ==
    \A c \in Conns :
        Rejected(c) =>
            /\ closeCode[c] = PolicyViolation
            /\ readyState[c] # "OPEN"
            /\ timer[c] = "none"
            /\ ticks[c] = 0
            /\ sent[c] = 0
            /\ \A i \in DOMAIN readings : readings[i].by # c

\* C4 witness: a rejected connection next to an authenticated session that
\* has ticked and sent.
C4_Witness ==
    \E c, d \in Conns :
        /\ Rejected(c) /\ readyState[c] = "CLOSED"
        /\ Authenticated(d) /\ sent[d] > 0 /\ readings # <<>>

\* C6 (as claimed): a tick of c whose push fails because the socket is no
\* longer open leaves the tick loop of c stopped (its timer no longer armed).
C6_FailedPushStopsLoop ==
    [][\A c \in Conns :
          (tick(c) /\ readyState[c] # "OPEN") => ~(running' /\ timer'[c] = "active")]_vars

\* C7: once the close event of an authenticated session has been handled its
\* timer is cancelled, and no later step is a tick of it: its tick count and
\* its sent count stay, and nothing it produced is appended.
C7_ClosedSessionIsSilent ==
    /\ [](\A c \in Conns :
            (Authenticated(c) /\ readyState[c] = "CLOSED") => timer[c] = "cleared")
    /\ [][\A c \in Conns :
            (Authenticated(c) /\ readyState[c] = "CLOSED")
              => /\ timer'[c] = "cleared"
                 /\ ticks'[c] = ticks[c]
                 /\ sent'[c] = sent[c]
                 /\ \A i \in DOMAIN readings' :
                       readings'[i].by = c => readings'[i].id <= nAppended]_vars

\* C7 witness: a session that ticked and sent is closed, while ticks still
\* happen afterwards (another session has appended a later snapshot).
C7_Witness ==
    \E c, d \in Conns :
        /\ c # d
        /\ Authenticated(c) /\ readyState[c] = "CLOSED" /\ sent[c] > 0
        /\ Authenticated(d) /\ timer[d] = "active" /\ running
        /\ readings # <<>> /\ readings[Len(readings)].by = d

\* The step handles the end of connection c: its close event, or its
\* rejection by the connection handler.
Teardown(c) ==
    \/ close(c)
    \/ \E k \in TokenKinds \ {"valid"} : connection(c, k)

\* C8: handling the close or the rejection of one connection leaves every
\* other connection's timer, tick count and sent count as they were, and
\* leaves readings unchanged.
C8_SessionsIndependent ==
    [][\A c \in Conns :
          Teardown(c) =>
             /\ \A d \in Conns \ {c} :
                   /\ timer'[d] = timer[d]
                   /\ ticks'[d] = ticks[d]
                   /\ sent'[d] = sent[d]
                   /\ readyState'[d] = readyState[d]
             /\ readings' = readings
             /\ nAppended' = nAppended]_vars

\* C8 witness: one session has been closed while another, which has ticked,
\* still has its timer active and the history is not empty.
C8_Witness ==
    \E c, d \in Conns :
        /\ c # d
        /\ Authenticated(c) /\ timer[c] = "cleared" /\ ticks[c] > 0
        /\ Authenticated(d) /\ timer[d] = "active" /\ ticks[d] > 0
        /\ running
        /\ Len(readings) = Capacity

\* ------------------------------------------------------------------ history

Min(a, b) == IF a < b THEN a ELSE b
Max(a, b) == IF a > b THEN a ELSE b

\* C9: between handlers readings never holds more than the capacity, under
\* any interleaving of the sessions' ticks.
C9_LengthBounded ==
    Len(readings) <= Capacity

\* C9 witness: the buffer is full and more snapshots than the capacity have
\* been appended, by more than one session.
C9_Witness ==
    /\ Len(readings) = Capacity
    /\ nAppended > Capacity
    /\ \E c, d \in Conns : c # d /\ ticks[c] > 0 /\ ticks[d] > 0

\* C10: after N appends readings holds the last min(N, capacity) snapshots
\* appended, in append order.
C10_LastAppendedInOrder ==
    /\ Len(readings) = Min(nAppended, Capacity)
    /\ \A i \in DOMAIN readings :
          readings[i].id = Max(0, nAppended - Capacity) + i

\* C10 witness: an eviction has happened and the retained snapshots come from
\* different sessions.
C10_Witness ==
    /\ nAppended > Capacity
    /\ Len(readings) = Capacity
    /\ readings[1].by # readings[Len(readings)].by

\* --------------------------------------------------------- connected state

\* The client is Connected: onConnect has run for the current socket and its
\* close event has not been dispatched.
Connected == ws # NoSocket /\ sock[ws] \in {"open", "broken"}

\* C13: while the client is Connected no reconnect timer is pending and the
\* handle is cleared.
C13_ConnectedHasNoTimer ==
    Connected => (pendingTimers = {} /\ reconnectTimer = NoTimer)

\* C13 witness: Connected again after a reconnect timer had been armed and
\* had fired (its handle was still set when onConnect ran).
C13_Witness ==
    /\ Connected
    /\ nextTimer > 1
    /\ \E s \in Sockets : sock[s] = "closed"

\* C18: the status indicator reads 'Connected' exactly while the client is
\* Connected: not before init, not while connecting, not after a close, not
\* while a reconnect timer is pending.
C18_StatusIffConnected ==
    (statusText = "Connected") <=> Connected

\* C18 witness: the indicator is back to its disconnected text, with a
\* reconnect timer pending, after a connection that had been open.
C18_Witness ==
    /\ statusText = "Mock Data"
    /\ pendingTimers # {}
    /\ nextTimer > 2
    /\ LiveSockets = {}

\* C20: at most one socket created by setupWebSocket is connecting or open
\* (or awaiting its close event) at any time.
C20_OneLiveSocket ==
    Cardinality(LiveSockets) <= 1

\* C20 witness: a socket created by a fired reconnect timer is live, every
\* earlier socket being closed.
C20_Witness ==
    \E s \in Sockets :
        /\ s > 1
        /\ sock[s] \in {"connecting", "open"}
        /\ \A r \in Sockets : r < s => sock[r] = "closed"

\* ---------------------------------------------------------------- snapshots

\* a snapshot has been received and rendered
Rendered == thisData # EmptyObject

\* What the page shows: the message of a hidden banner is not displayed
Shown(u) ==
    [u EXCEPT !.bannerMessage = IF "hidden" \in u.bannerClass THEN "" ELSE @]

\* C11 (as claimed): what is shown after any sequence of snapshots is what the
\* last snapshot alone produces on a fresh page.
C11_UiFromLastSnapshot ==
    (Rendered /\ thisData.safety_level \in SafetyLevels \cup {""})
        => Shown(ui) = Shown(updateUI(MarkupUI, thisData))

\* C12: a frame that fails to parse is dropped: the sockets, the reconnect
\* timer, this.data, the page and the status indicator are as before.
C12_MalformedDropped ==
    [][parseErrors' # parseErrors
         => UNCHANGED <<started, hasToken, redirected, ws, sock, reconnectTimer,
                        pendingTimers, nextTimer, statusText, thisData, ui>>]_vars

\* C12 witness: a frame was dropped after a snapshot had been rendered, and
\* the connection is still open with the snapshot in place.
C12_Witness ==
    /\ parseErrors > 0
    /\ Rendered
    /\ Connected /\ sock[ws] = "open"
    /\ statusText = "Connected"

\* the severity the load-percent element shows
Severity(classes) ==
    IF "danger" \in classes THEN "danger"
    ELSE IF "warning" \in classes THEN "warning"
    ELSE "normal"

\* C15 (as claimed): with swl > 0 the severity is normal, warning or danger
\* according to load/swl*100 being below 80, in [80, 95) or at least 95; with
\* swl absent or not positive no severity is shown.
C15_PercentSeverity ==
    (Rendered /\ thisData.load # Undefined) =>
        IF thisData.swl # Undefined /\ thisData.swl > 0
        THEN Severity(ui.percentClass) =
                 (IF 100 * thisData.load >= 95 * thisData.swl THEN "danger"
                  ELSE IF 100 * thisData.load >= 80 * thisData.swl THEN "warning"
                  ELSE "normal")
        ELSE ui.percentClass \cap {"warning", "danger"} = {}

\* C16 (as claimed): safe hides the banner; warning shows it, not as danger,
\* with the warning message; overload and cutoff show it as danger, and the
\* message shown for cutoff is not the one overload produces.
C16_BannerMapping ==
    Rendered =>
        LET level == IF thisData.safety_level = "" THEN "safe" ELSE thisData.safety_level
        IN  /\ level = "safe" => "hidden" \in ui.bannerClass
            /\ level = "warning" =>
                  /\ "hidden" \notin ui.bannerClass
                  /\ "danger" \notin ui.bannerClass
                  /\ ui.bannerMessage = WarningMessage
            /\ level \in {"overload", "cutoff"} =>
                  /\ "hidden" \notin ui.bannerClass
                  /\ "danger" \in ui.bannerClass
            /\ level = "cutoff" =>
                  ui.bannerMessage # updateSafetyStatus(ui, "overload").bannerMessage

Colours == {"grey", "green", "yellow", "red"}

\* C17: every indicator carries exactly one colour, the one of the table
\* (hit, not tested: red; hit, tested: yellow; not hit, tested: green;
\* neither: grey), and recomputing it from any earlier colour gives the same.
C17_IndicatorTable ==
    Rendered =>
        \A i \in Switches :
            LET tested == thisData.tested[i]
                hit == thisData.hit[i]
                colour == IF hit /\ ~tested THEN "red"
                          ELSE IF hit /\ tested THEN "yellow"
                          ELSE IF ~hit /\ tested THEN "green"
                          ELSE "grey"
            IN  /\ ui.indicator[i] \cap Colours = {colour}
                /\ \A before \in Colours :
                      updateTestIndicator({"test-indicator", before}, tested, hit)
                          = ui.indicator[i]

\* C17 witness: a switch that is hit without having been tested shows red
\* beside one that shows grey.
C17_Witness ==
    /\ Rendered
    /\ \E i \in Switches :
          /\ thisData.hit[i] /\ ~thisData.tested[i]
          /\ "red" \in ui.indicator[i]
          /\ \E j \in Switches : j # i /\ "grey" \in ui.indicator[j]

\* C19: the timer text is minutes, ':', two digits of seconds while the test
\* is in progress and remaining_seconds is present, and '10:00' otherwise.
C19_TimerText ==
    Rendered =>
        ui.timerText =
            (IF thisData.in_progress /\ thisData.remaining_seconds # Undefined
             THEN <<thisData.remaining_seconds \div 60,
                    (thisData.remaining_seconds % 60) \div 10,
                    (thisData.remaining_seconds % 60) % 10>>
             ELSE <<10, 0, 0>>)

\* C19 witness: 65 seconds remaining are shown as 1:05.
C19_Witness ==
    /\ Rendered
    /\ thisData.in_progress
    /\ thisData.remaining_seconds = 65
    /\ ui.timerText = <<1, 0, 5>>

\* ------------------------------------------------------------------ history

\* the snapshots of rs with a timestamp at or after the instant
AtOrAfter(rs, instant) == {rs[i] : i \in {j \in DOMAIN rs : rs[j].timestamp >= instant}}

\* C14: a history response holds buffered snapshots with timestamp >= instant
\* only, each once, most recent first, all of them up to the limit (what is
\* cut off is not more recent than what is returned), and the request leaves
\* the buffer as it was.
C14_HistoryQuery ==
    [][(res' # res /\ res'.status = OK) =>
          LET body == res'.body
              wanted == AtOrAfter(readings, res'.since)
          IN  /\ readings' = readings
              /\ \A i \in DOMAIN body : body[i] \in wanted
              /\ \A i, j \in DOMAIN body : i < j =>
                    /\ body[i] # body[j]
                    /\ body[i].timestamp >= body[j].timestamp
              /\ Len(body) = Min(Cardinality(wanted), HistoryLimit)
              /\ \A r \in wanted :
                    (\A i \in DOMAIN body : body[i] # r) =>
                        \A i \in DOMAIN body : body[i].timestamp >= r.timestamp]_vars

\* C14 witness: after an eviction, a response for a positive instant holds
\* snapshots of different sessions, the latest first.
C14_Witness ==
    /\ res.status = OK
    /\ res.since > 0
    /\ Len(res.body) > 1
    /\ res.body[1].timestamp > res.body[Len(res.body)].timestamp
    /\ res.body[1].by # res.body[Len(res.body)].by
    /\ nAppended > Capacity

\* ---------------------------------------------------------------- handshake

\* C21 (as claimed): a client socket whose connection the gateway closed with
\* 1008 is never open on the client and never shown as 'Connected', and the
\* client is Connected only on a connection the gateway has authenticated.
C21_RejectedNeverConnected ==
    /\ \A s \in Conns :
          closeCode[s] = PolicyViolation =>
              /\ sock[s] \notin {"open", "broken"}
              /\ ~(ws = s /\ statusText = "Connected")
    /\ Connected => (ws \in Conns /\ Authenticated(ws))

====
